---- MODULE Spec2Model ----
(***************************************************************************)
(* Model of the polling and synchronisation engine of GitHub Viewer:       *)
(* Scheduler (src/src/scheduler.py) driving GitManager                     *)
(* (src/src/git_manager.py) under a Config (src/src/config.py) and the     *)
(* TokenStore (src/src/token_store.py).                                    *)
(*                                                                         *)
(* The repository is a commit graph (each commit has a set of parents),    *)
(* a local HEAD, the remote-tracking ref origin/<branch>, the branch tip   *)
(* on the server, and the working-tree flags.  One poll tick is a chain of *)
(* steps, one per external interaction (token lookup, git command, prompt),*)
(* and `trace` records the commands and prompts of the current tick.       *)
(***************************************************************************)
EXTENDS Integers, Sequences, FiniteSets, TLC

\* ----------------------------------------------------------------- bounds
MaxCommits == 4        \* commits that can exist in the graph
StartTime == 3         \* time.time() when the loop is entered
MaxTime == 4           \* the clock stops advancing here
MaxPromptWait == 1     \* longest time a prompt blocks
MaxUrlLen == 3         \* pieces of a generated URL
MaxNameLen == 2        \* pieces of a generated repository name
MaxApply == 3          \* fetches and pushes that rewrite remote.origin.url

None == 0              \* Python None for an optional commit id

\* ------------------------------------------------- JSON values of config
\* A JSON value read by json.load: k is its type, n its number (an integer,
\* or twice the number for a float), s its characters for a string.
JMissing == [k |-> "missing", n |-> 0, s |-> <<>>]
JNull == [k |-> "null", n |-> 0, s |-> <<>>]
JList == [k |-> "list", n |-> 0, s |-> <<>>]
JInt(i) == [k |-> "int", n |-> i, s |-> <<>>]
JBool(b) == [k |-> "bool", n |-> IF b THEN 1 ELSE 0, s |-> <<>>]
JFloatHalves(h) == [k |-> "float", n |-> h, s |-> <<>>]
JStr(chars) == [k |-> "str", n |-> 0, s |-> chars]

DigitValue(c) ==
    CASE c = "0" -> 0 [] c = "1" -> 1 [] c = "2" -> 2 [] c = "5" -> 5
      [] OTHER -> -1

IsDigit(c) == DigitValue(c) >= 0

RECURSIVE LStrip(_)
LStrip(s) == IF s # <<>> /\ Head(s) = " " THEN LStrip(Tail(s)) ELSE s

RECURSIVE RStrip(_)
RStrip(s) ==
    IF s # <<>> /\ s[Len(s)] = " " THEN RStrip(SubSeq(s, 1, Len(s) - 1)) ELSE s

Strip(s) == RStrip(LStrip(s))

RECURSIVE DigitsValue(_, _)
DigitsValue(s, acc) ==
    IF s = <<>> THEN acc ELSE DigitsValue(Tail(s), 10 * acc + DigitValue(Head(s)))

AllDigits(s) == s # <<>> /\ \A i \in 1..Len(s) : IsDigit(s[i])

\* Python's int(x): the value, or the exception it raises.
PyInt(x) ==
    CASE x.k = "int" -> [exc |-> "none", val |-> x.n]
      [] x.k = "bool" -> [exc |-> "none", val |-> x.n]
      [] x.k = "float" ->
            [exc |-> "none",
             val |-> IF x.n >= 0 THEN x.n \div 2 ELSE -((-x.n) \div 2)]
      [] x.k = "str" ->
            LET t == Strip(x.s)
                neg == t # <<>> /\ Head(t) = "-"
                body == IF neg THEN Tail(t) ELSE t
            IN IF AllDigits(body)
               THEN [exc |-> "none",
                     val |-> IF neg THEN -DigitsValue(body, 0)
                             ELSE DigitsValue(body, 0)]
               ELSE [exc |-> "ValueError", val |-> 0]
      [] OTHER -> [exc |-> "TypeError", val |-> 0]

\* Python truthiness of a JSON value (`not value` is its negation).
Truthy(x) ==
    CASE x.k = "str" -> x.s # <<>>
      [] x.k \in {"int", "bool", "float"} -> x.n # 0
      [] OTHER -> FALSE

\* Values the three text keys take in the model.
TextValues == {JMissing, JNull, JStr(<<>>), JStr(<<"p">>)}

\* Values project_path takes in the model.
PathValues == TextValues \cup {JInt(5)}

\* Values check_interval takes in the model.
IntervalValues ==
    {JMissing, JNull, JList, JInt(-1), JInt(0), JInt(1), JInt(2),
     JBool(FALSE), JFloatHalves(1), JFloatHalves(-1),
     JStr(<<>>), JStr(<<"a">>), JStr(<<" ", "2", " ">>), JStr(<<"1", ".", "5">>)}

FileStates == {"missing", "badjson", "object"}

\* Content of the keyring entry: absent, an empty string, or a token.
NoToken == "none"
EmptyToken == "empty"
Tok == "T"
TokenValues == {NoToken, EmptyToken, Tok}

VARIABLES
    config_file,     \* what is at config_path: "missing", "badjson", "object"
    file_data,       \* the JSON object in the file
    config_data,     \* Config._config_data
    is_repo_dir,     \* whether <project_path>/.git exists
    running,         \* Scheduler.running
    pc,              \* position of the process
    start_result,    \* outcome of Scheduler.start: "none", "True", "False", "raised"
    exit_code,       \* process exit code, -1 while the process runs
    now,             \* time.time()
    current_time,    \* _main_loop local
    last_check_time, \* _main_loop local
    check_interval,  \* _main_loop local
    commits,         \* commit graph: commits[c] is the set of parents of c
    server_head,     \* tip of <branch> on the server
    repo,            \* local repository: head, track (origin/<branch>), flags
    keyring,         \* TokenStore content
    tick,            \* per-tick observations of the current tick
    trace,           \* commands, prompts and reports of the current tick
    ticks,           \* number of ticks started
    interrupted,     \* where KeyboardInterrupt hit: "no", "sleep", "tick", "prompt"
    clone_call,      \* a call of GitManager.clone: arguments and URL passed
    run_call,        \* a call of GitManager._run_git_command and its result
    reconf           \* remote.origin.url under the rewrite of fetch and push

vars == <<config_file, file_data, config_data, is_repo_dir, running, pc,
          start_result, exit_code, now, current_time, last_check_time,
          check_interval, commits, server_head, repo, keyring, tick,
          trace, ticks, interrupted, clone_call, run_call, reconf>>


\* --------------------------------------------------------------- Config
RequiredKeys == {"project_path", "repo_url", "branch", "check_interval"}

\* Config.load: the outcome and the data held afterwards.
load(file, data) ==
    IF file = "object" THEN [ok |-> TRUE, data |-> data]
    ELSE [ok |-> FALSE, data |-> [key \in DOMAIN data |-> JMissing]]

\* Config.is_valid: "True", "False", or "raised" when int() raises an
\* exception other than ValueError.
is_valid(data) ==
    IF \E key \in RequiredKeys : data[key] = JMissing THEN "False"
    ELSE IF ~Truthy(data["project_path"]) THEN "False"
    ELSE IF ~Truthy(data["repo_url"]) THEN "False"
    ELSE IF ~Truthy(data["branch"]) THEN "False"
    ELSE LET interval == PyInt(data["check_interval"])
         IN CASE interval.exc = "ValueError" -> "False"
              [] interval.exc = "TypeError" -> "raised"
              [] OTHER -> IF interval.val <= 0 THEN "False" ELSE "True"

\* Config.get_check_interval (the key is present once is_valid passed).
get_check_interval(data) == PyInt(data["check_interval"]).val

\* Config.get(key, default)
get(data, key, default) == IF data[key] = JMissing THEN default ELSE data[key]

is_auto_push_enabled_default_true(data) ==
    Truthy(get(data, "auto_push", JBool(TRUE)))

is_auto_push_enabled(data) == Truthy(get(data, "auto_push", JBool(FALSE)))

is_confirm_push_enabled(data) == Truthy(get(data, "confirm_push", JBool(TRUE)))

is_private_repo(data) == Truthy(get(data, "is_private", JBool(FALSE)))

\* Config.get_project_path: Path(value) raises TypeError unless value is text.
get_project_path_raises(data) == data["project_path"].k # "str"

\* ----------------------------------------------------------- TokenStore
\* TokenStore.get_token, and the scheduler's `if not token` test on it.
get_token(store) == store

token_missing_none_only(t) == t = NoToken

token_missing(t) == t \in {NoToken, EmptyToken}

\* ------------------------------------------------------------------ URLs
\* A URL is a sequence of pieces; every pattern the code searches for
\* ('https://', 'github.com', 'github.com/', '@', '.git') is a sequence of
\* whole pieces, and no piece contains a pattern across its boundary.
UrlAtoms == {"https://", "git", "@", "github.com", "gitlab.com", "/", ":",
             "u/r", ".git", "T"}

\* The characters of a token as they are put into a URL.
TokenText(t) == IF t = Tok THEN <<"T">> ELSE <<>>

HttpsUrl == <<"https://", "github.com", "/", "u/r", ".git">>
SshUrl == <<"git", "@", "github.com", ":", "u/r", ".git">>
OtherHostUrl == <<"https://", "gitlab.com", "/", "u/r", ".git">>

\* What remote.origin.url holds when the repository was cloned.
OriginUrls == {HttpsUrl, SshUrl}

\* s.startswith(p), s.endswith(p), p in s
StartsWith(s, p) == Len(s) >= Len(p) /\ SubSeq(s, 1, Len(p)) = p

EndsWith(s, p) ==
    Len(s) >= Len(p) /\ SubSeq(s, Len(s) - Len(p) + 1, Len(s)) = p

Contains(s, p) ==
    \E i \in 1..(Len(s) - Len(p) + 1) : SubSeq(s, i, i + Len(p) - 1) = p

\* s.replace(p, r): every occurrence, left to right
RECURSIVE Replace(_, _, _)
Replace(s, p, r) ==
    IF s = <<>> THEN <<>>
    ELSE IF StartsWith(s, p)
         THEN r \o Replace(SubSeq(s, Len(p) + 1, Len(s)), p, r)
         ELSE <<Head(s)>> \o Replace(Tail(s), p, r)

\* s.split(p, 1)[1] when p occurs in s: what follows the first occurrence
RECURSIVE AfterFirst(_, _)
AfterFirst(s, p) ==
    IF StartsWith(s, p) THEN SubSeq(s, Len(p) + 1, Len(s))
    ELSE AfterFirst(Tail(s), p)

\* s.split(p)[-1]: what follows the last occurrence, s itself without one
RECURSIVE AfterLast(_, _)
AfterLast(s, p) ==
    IF ~Contains(s, p) THEN s ELSE AfterLast(AfterFirst(s, p), p)

clone_url_any_scheme(url, token) ==
    IF ~token_missing(token) /\ Contains(url, <<"github.com">>)
    THEN <<"https://">> \o TokenText(token) \o <<"@", "github.com", "/">>
            \o AfterLast(url, <<"github.com", "/">>)
    ELSE url

\* The clone URL GitManager.clone builds from its url and token arguments.
clone_url(url, token) ==
    IF ~token_missing(token) /\ Contains(url, <<"github.com">>)
          /\ StartsWith(url, <<"https://">>)
    THEN Replace(url, <<"https://">>,
                 <<"https://">> \o TokenText(token) \o <<"@">>)
    ELSE url

get_repo_path_after_host(url) ==
    IF Contains(url, <<"github.com">>)
    THEN LET path == AfterLast(url, <<"github.com">>)
             host == IF Contains(path, <<"@">>)
                     THEN AfterFirst(path, <<"@">>) ELSE path
         IN IF EndsWith(host, <<".git">>)
            THEN SubSeq(host, 1, Len(host) - 1) ELSE host
    ELSE <<>>

\* GitManager._get_repo_path on the output of `git remote get-url origin`.
get_repo_path(url) ==
    IF Contains(url, <<"github.com">>)
    THEN LET path == AfterLast(url, <<"github.com", "/">>)
             host == IF Contains(path, <<"@">>)
                     THEN AfterFirst(path, <<"@">>) ELSE path
         IN IF EndsWith(host, <<".git">>)
            THEN SubSeq(host, 1, Len(host) - 1) ELSE host
    ELSE <<>>

\* The `git config remote.origin.url ...` of fetch and push: the URL stored
\* afterwards (`if token:`).
configure_token(url, token) ==
    IF token_missing(token) THEN url
    ELSE <<"https://">> \o TokenText(token) \o <<"@", "github.com", "/">>
            \o get_repo_path(url)

\* Whether git reaches the repository u/r on the server through this URL.
Reaches(url) ==
    LET plain == IF EndsWith(url, <<".git">>)
                 THEN SubSeq(url, 1, Len(url) - 1) ELSE url
    IN plain \in {<<"https://", "github.com", "/", "u/r">>,
                  <<"https://", "T", "@", "github.com", "/", "u/r">>,
                  <<"git", "@", "github.com", ":", "u/r">>,
                  <<"https://", "gitlab.com", "/", "u/r">>}

\* ------------------------------------------------------------ commit graph
RECURSIVE Ancestors(_, _)
Ancestors(cs, c) == {c} \cup UNION {Ancestors(cs, p) : p \in cs[c]}

\* a is an ancestor of b, or b itself
IsAncestorOrEqual(cs, a, b) == a \in Ancestors(cs, b)

NewCommit(cs, parents) == Append(cs, parents)

\* ------------------------------------------------------------- GitManager
\* GitManager.get_local_head / get_remote_head: the commit id, or None when
\* the rev-parse command fails.
get_local_head(r, ok) == IF ok THEN r.head ELSE None

get_remote_head(r, ok) == IF ok THEN r.track ELSE None

has_changes_unknown_is_drift(local_head, remote_head) ==
    local_head # remote_head

\* GitManager.has_changes on the two resolved heads.
has_changes(local_head, remote_head) ==
    IF local_head = None \/ remote_head = None THEN FALSE
    ELSE local_head # remote_head

\* GitManager.has_local_changes: porcelain status non-empty; False when the
\* status command fails.
has_local_changes(r, ok) == ok /\ (r.dirty \/ r.staged \/ r.merging)

\* GitManager.fetch: the token is written into remote.origin.url when one
\* is given, then the outcomes of `git fetch origin`.
fetch(r, server, token) ==
    LET stored == [r EXCEPT !.url = configure_token(r.url, token)]
    IN {[ok |-> FALSE, repo |-> stored]}
       \cup (IF Reaches(stored.url)
             THEN {[ok |-> TRUE, repo |-> [stored EXCEPT !.track = server]]}
             ELSE {})

merge_local_branch(r, cs) ==
    {[ok |-> TRUE, repo |-> r, commits |-> cs],
     [ok |-> FALSE, repo |-> r, commits |-> cs]}

\* GitManager.merge_remote_changes: outcomes of `git merge origin/<branch>`.
merge_remote_changes(r, cs) ==
    LET failed == [ok |-> FALSE, repo |-> r, commits |-> cs]
        same == [ok |-> TRUE, repo |-> r, commits |-> cs]
        forward == [ok |-> TRUE, repo |-> [r EXCEPT !.head = r.track],
                    commits |-> cs]
        merged == [ok |-> TRUE,
                   repo |-> [r EXCEPT !.head = Len(cs) + 1],
                   commits |-> NewCommit(cs, {r.head, r.track})]
        conflict == [ok |-> FALSE,
                     repo |-> [r EXCEPT !.merging = TRUE, !.dirty = TRUE,
                                        !.merge_head = r.track],
                     commits |-> cs]
    IN IF r.merging THEN {failed}
       ELSE IF IsAncestorOrEqual(cs, r.track, r.head) THEN {same, failed}
       ELSE IF IsAncestorOrEqual(cs, r.head, r.track) THEN {forward, failed}
       ELSE {conflict, failed}
            \cup (IF Len(cs) < MaxCommits THEN {merged} ELSE {})

add_all_keep_dirty(r) ==
    {[ok |-> TRUE, repo |-> [r EXCEPT !.staged = r.staged \/ r.dirty]],
     [ok |-> FALSE, repo |-> r]}

\* GitManager.add_all: outcomes of `git add .`.
add_all(r) ==
    {[ok |-> TRUE, repo |-> [r EXCEPT !.staged = r.staged \/ r.dirty,
                                      !.dirty = FALSE]],
     [ok |-> FALSE, repo |-> r]}

\* GitManager.commit: outcomes of `git commit -m <message>`.
commit(r, cs) ==
    LET parents == IF r.merging THEN {r.head, r.merge_head} ELSE {r.head}
        done == [ok |-> TRUE,
                 repo |-> [r EXCEPT !.head = Len(cs) + 1, !.staged = FALSE,
                                    !.merging = FALSE, !.merge_head = None],
                 commits |-> NewCommit(cs, parents)]
        failed == [ok |-> FALSE, repo |-> r, commits |-> cs]
    IN {failed}
       \cup (IF r.staged /\ Len(cs) < MaxCommits THEN {done} ELSE {})

\* GitManager.push: the token is written into remote.origin.url when one
\* is given, then the outcomes of `git push origin <branch>`.
push(r, cs, server, token) ==
    LET stored == [r EXCEPT !.url = configure_token(r.url, token)]
        failed == [ok |-> FALSE, repo |-> stored, server |-> server]
        pushed == [ok |-> TRUE, repo |-> [stored EXCEPT !.track = r.head],
                   server |-> r.head]
    IN {failed}
       \cup (IF Reaches(stored.url) /\ IsAncestorOrEqual(cs, server, r.head)
             THEN {pushed} ELSE {})


\* -------------------------------------------------------------- prompts
LowerChar(c) == CASE c = "O" -> "o" [] c = "Y" -> "y" [] OTHER -> c

Lower(s) == [i \in 1..Len(s) |-> LowerChar(s[i])]

Approves_default_yes(answer) ==
    Lower(Strip(answer)) \in
        {<<>>, <<"o">>, <<"o", "u", "i">>, <<"y", "e", "s">>, <<"y">>}

Approves_nonempty(answer) == Strip(answer) # <<>>

\* input(...).strip().lower() in ['o', 'oui', 'yes', 'y']
Approves(answer) ==
    Lower(Strip(answer)) \in
        {<<"o">>, <<"o", "u", "i">>, <<"y", "e", "s">>, <<"y">>}

\* What the user types at a prompt.
Answers == {<<" ", "Y">>, <<"n">>, <<>>, <<"y", "e">>}

\* How a prompt ends: an answer, or EOFError raised by input().
Replies == [kind : {"answer"}, text : Answers] \cup {[kind |-> "eof", text |-> <<>>]}

NoReply == [kind |-> "none", text |-> <<>>]

\* ---------------------------------------------------------------- trace
Ev(cmd, ok) == [cmd |-> cmd, ok |-> ok]

Invoked(cmd) == \E i \in 1..Len(trace) : trace[i].cmd = cmd

Succeeded(cmd) == \E i \in 1..Len(trace) : trace[i].cmd = cmd /\ trace[i].ok

Count(cmd) == Cardinality({i \in 1..Len(trace) : trace[i].cmd = cmd})

Position(cmd) == CHOOSE i \in 1..Len(trace) : trace[i].cmd = cmd

\* ----------------------------------------------------------------- Init
GoodText == JStr(<<"p">>)

\* Configuration files: every combination of the required keys with the
\* optional keys absent, and good text keys with every combination of flags.
ConfigFiles ==
    {[project_path |-> a, repo_url |-> b, branch |-> c, check_interval |-> i,
      auto_push |-> JMissing, confirm_push |-> JMissing, is_private |-> JMissing] :
        a \in PathValues, b \in TextValues, c \in TextValues, i \in IntervalValues}
    \cup
    {[project_path |-> GoodText, repo_url |-> GoodText, branch |-> GoodText,
      check_interval |-> i, auto_push |-> f, confirm_push |-> g, is_private |-> h] :
        i \in {JInt(1)}, f \in {JBool(TRUE), JBool(FALSE)},
        g \in {JBool(TRUE), JBool(FALSE)}, h \in {JBool(TRUE), JBool(FALSE)}}

EmptyConfig ==
    [project_path |-> JMissing, repo_url |-> JMissing, branch |-> JMissing,
     check_interval |-> JMissing, auto_push |-> JMissing,
     confirm_push |-> JMissing, is_private |-> JMissing]

NoCloneCall == [url |-> <<>>, token |-> NoToken, ran |-> FALSE, passed |-> <<>>]

NoResult == [raised |-> "none", ok |-> FALSE, stdout |-> <<>>, stderr |-> <<>>,
             env |-> "unset"]

NoRunCall == [capture_output |-> FALSE, launch |-> "started", returncode |-> 0,
              out |-> <<>>, err |-> <<>>, environ |-> "unset", ran |-> FALSE,
              result |-> NoResult]

NoReconf == [owner |-> <<>>, name |-> <<>>, origin |-> <<>>, url |-> <<>>,
             token |-> NoToken, applied |-> 0]

NewTick(r, store) ==
    [head0 |-> r.head, dirty0 |-> r.dirty \/ r.staged \/ r.merging,
     compared |-> FALSE, local_head |-> None,
     remote_head |-> None, drift |-> FALSE, merge_reply |-> NoReply,
     head_pre_merge |-> None, track_pre_merge |-> None,
     push_reply |-> NoReply, head_pre_commit |-> None, external |-> FALSE,
     token_absent |-> store \in {NoToken, EmptyToken}]

Init ==
    /\ config_file \in FileStates
    /\ file_data \in (IF config_file = "object" THEN ConfigFiles ELSE {EmptyConfig})
    /\ config_data = EmptyConfig
    /\ is_repo_dir \in BOOLEAN
    /\ running = FALSE
    /\ pc = "init"
    /\ start_result = "none"
    /\ exit_code = -1
    /\ now = StartTime
    /\ current_time = 0
    /\ last_check_time = 0
    /\ check_interval = 0
    /\ commits = <<{}>>
    /\ server_head = 1
    /\ repo \in [head : {1}, track : {1}, dirty : {FALSE}, staged : {FALSE},
                merging : {FALSE}, merge_head : {None}, url : OriginUrls]
    /\ keyring = NoToken
    /\ tick = NewTick(repo, keyring)
    /\ trace = <<>>
    /\ ticks = 0
    /\ interrupted = "no"
    /\ clone_call = NoCloneCall
    /\ run_call = NoRunCall
    /\ reconf = NoReconf


\* ------------------------------------------------------------ Scheduler
ConfigVars == <<config_file, file_data, is_repo_dir>>

\* The setup wizard's clone is not part of the scheduler's run.
SetupVars == <<clone_call, run_call, reconf>>

LoopLocals == <<current_time, last_check_time, check_interval>>

GitVars == <<commits, server_head, repo>>

LoopPositions ==
    {"loop", "sleep", "fetch", "has_changes", "ask_merge", "merge", "local",
     "ask_push", "add", "commit", "push"}

start_check_time_now ==
    /\ pc = "init"
    /\ LET loaded == load(config_file, file_data)
           valid == is_valid(loaded.data)
           outcome ==
               IF ~loaded.ok THEN "False"
               ELSE IF valid # "True" THEN valid
               ELSE IF get_project_path_raises(loaded.data) THEN "raised"
               ELSE IF ~is_repo_dir THEN "False"
               ELSE "loop"
       IN /\ config_data' = loaded.data
          /\ IF outcome = "loop"
             THEN /\ running' = TRUE
                  /\ pc' = "loop"
                  /\ last_check_time' = now
                  /\ check_interval' = get_check_interval(loaded.data)
                  /\ UNCHANGED <<start_result, exit_code>>
             ELSE /\ pc' = "exited"
                  /\ start_result' = outcome
                  /\ exit_code' = 1
                  /\ UNCHANGED <<running, last_check_time, check_interval>>
    /\ UNCHANGED <<ConfigVars, SetupVars, now, current_time, GitVars, keyring,
                   tick, trace, ticks, interrupted>>

\* Scheduler.start, up to the first evaluation of the loop condition.
start ==
    /\ pc = "init"
    /\ LET loaded == load(config_file, file_data)
           valid == is_valid(loaded.data)
           outcome ==
               IF ~loaded.ok THEN "False"
               ELSE IF valid # "True" THEN valid
               ELSE IF get_project_path_raises(loaded.data) THEN "raised"
               ELSE IF ~is_repo_dir THEN "False"
               ELSE "loop"
       IN /\ config_data' = loaded.data
          /\ IF outcome = "loop"
             THEN /\ running' = TRUE
                  /\ pc' = "loop"
                  /\ last_check_time' = 0
                  /\ check_interval' = get_check_interval(loaded.data)
                  /\ UNCHANGED <<start_result, exit_code>>
             ELSE /\ pc' = "exited"
                  /\ start_result' = outcome
                  /\ exit_code' = 1
                  /\ UNCHANGED <<running, last_check_time, check_interval>>
    /\ UNCHANGED <<ConfigVars, SetupVars, now, current_time, GitVars, keyring,
                   tick, trace, ticks, interrupted>>

\* _main_loop returns and start returns True: the locals of the loop and of
\* the tick are gone.
Return ==
    /\ pc' = "exited"
    /\ start_result' = "True"
    /\ exit_code' = 0
    /\ current_time' = 0
    /\ last_check_time' = 0
    /\ check_interval' = 0
    /\ tick' = NewTick(repo, keyring)
    /\ trace' = <<>>

\* Scheduler.stop called from outside the loop's thread of control.
stop ==
    /\ pc \in LoopPositions
    /\ running
    /\ running' = FALSE
    /\ UNCHANGED <<ConfigVars, SetupVars, config_data, pc, start_result,
                   exit_code, now, LoopLocals, GitVars, keyring, tick, trace,
                   ticks, interrupted>>

interrupt_caught_by_tick ==
    /\ pc \in LoopPositions
    /\ interrupted' = (IF pc \in {"loop", "sleep"} THEN "sleep"
                       ELSE IF pc \in {"ask_merge", "ask_push"} THEN "prompt"
                       ELSE "tick")
    /\ IF pc \in {"loop", "sleep"}
       THEN running' = FALSE /\ Return
       ELSE /\ pc' = "sleep"
            /\ last_check_time' = current_time
            /\ UNCHANGED <<running, start_result, exit_code, current_time,
                           check_interval, tick, trace>>
    /\ UNCHANGED <<ConfigVars, SetupVars, config_data, now, GitVars, keyring,
                   ticks>>

\* KeyboardInterrupt raised inside _main_loop: no handler of a tick catches
\* it (they catch Exception), the loop's handler calls stop, start returns
\* True.
interrupt ==
    /\ pc \in LoopPositions
    /\ interrupted' = (IF pc \in {"loop", "sleep"} THEN "sleep"
                       ELSE IF pc \in {"ask_merge", "ask_push"} THEN "prompt"
                       ELSE "tick")
    /\ running' = FALSE
    /\ Return
    /\ UNCHANGED <<ConfigVars, SetupVars, config_data, now, GitVars, keyring,
                   ticks>>

main_loop_every_wake ==
    /\ pc = "loop"
    /\ IF ~running
       THEN /\ Return
            /\ UNCHANGED ticks
       ELSE /\ current_time' = now
            /\ UNCHANGED <<start_result, exit_code, last_check_time,
                           check_interval>>
            /\ IF TRUE
               THEN /\ pc' = "fetch"
                    /\ tick' = NewTick(repo, keyring)
                    /\ trace' = <<>>
                    /\ ticks' = ticks + 1
               ELSE /\ pc' = "sleep"
                    /\ UNCHANGED <<tick, trace, ticks>>
    /\ UNCHANGED <<ConfigVars, SetupVars, config_data, running, interrupted,
                   now, GitVars, keyring>>

\* _main_loop: the loop condition, the interval test and the entry of a tick.
main_loop ==
    /\ pc = "loop"
    /\ IF ~running
       THEN /\ Return
            /\ UNCHANGED ticks
       ELSE /\ current_time' = now
            /\ UNCHANGED <<start_result, exit_code, last_check_time,
                           check_interval>>
            /\ IF now - last_check_time >= check_interval
               THEN /\ pc' = "fetch"
                    /\ tick' = NewTick(repo, keyring)
                    /\ trace' = <<>>
                    /\ ticks' = ticks + 1
               ELSE /\ pc' = "sleep"
                    /\ UNCHANGED <<tick, trace, ticks>>
    /\ UNCHANGED <<ConfigVars, SetupVars, config_data, running, interrupted,
                   now, GitVars, keyring>>

\* time.sleep(1) at the end of a loop iteration; the observations of the
\* finished tick are dropped.  The clock is bounded: it stays at MaxTime.
sleep ==
    /\ pc = "sleep"
    /\ now' = IF now < MaxTime THEN now + 1 ELSE now
    /\ pc' = "loop"
    /\ tick' = NewTick(repo, keyring)
    /\ trace' = <<>>
    /\ UNCHANGED <<ConfigVars, SetupVars, config_data, running, interrupted,
                   start_result, exit_code, LoopLocals, GitVars, keyring,
                   ticks>>

EndTick_at_return ==
    /\ pc' = "sleep"
    /\ last_check_time' = now

EndTick_exit ==
    /\ pc' = "exited"
    /\ last_check_time' = current_time

\* _check_for_changes returns to _main_loop, which records the check time.
EndTick ==
    /\ pc' = "sleep"
    /\ last_check_time' = current_time

check_fetch_no_return ==
    /\ pc = "fetch"
    /\ LET private == is_private_repo(config_data)
           t == IF private THEN get_token(keyring) ELSE NoToken
       IN \E out \in fetch(repo, server_head, t) :
             /\ repo' = out.repo
             /\ trace' = trace
                   \o (IF private /\ token_missing(t)
                       THEN <<Ev("token_missing", TRUE)>> ELSE <<>>)
                   \o (IF token_missing(t) THEN <<>>
                       ELSE <<Ev("remote_get_url", TRUE), Ev("config_url", TRUE)>>)
                   \o <<Ev("fetch", out.ok)>>
             /\ IF out.ok
                THEN pc' = "has_changes" /\ UNCHANGED last_check_time
                ELSE EndTick
    /\ UNCHANGED <<ConfigVars, SetupVars, config_data, running, interrupted,
                   start_result, exit_code, now, current_time, check_interval,
                   commits, server_head, keyring, tick, ticks>>

check_fetch_continue_on_failure ==
    /\ pc = "fetch"
    /\ LET private == is_private_repo(config_data)
           t == IF private THEN get_token(keyring) ELSE NoToken
       IN IF private /\ token_missing(t)
          THEN /\ trace' = Append(trace, Ev("token_missing", TRUE))
               /\ EndTick
               /\ UNCHANGED repo
          ELSE \E out \in fetch(repo, server_head, t) :
                  /\ repo' = out.repo
                  /\ trace' = trace
                        \o (IF token_missing(t) THEN <<>>
                            ELSE <<Ev("remote_get_url", TRUE), Ev("config_url", TRUE)>>)
                        \o <<Ev("fetch", out.ok)>>
                  /\ pc' = (IF out.ok THEN "has_changes" ELSE "local")
                  /\ UNCHANGED last_check_time
    /\ UNCHANGED <<ConfigVars, SetupVars, config_data, running, interrupted,
                   start_result, exit_code, now, current_time, check_interval,
                   commits, server_head, keyring, tick, ticks>>

\* _check_for_changes: token lookup and fetch.
check_fetch ==
    /\ pc = "fetch"
    /\ LET private == is_private_repo(config_data)
           t == IF private THEN get_token(keyring) ELSE NoToken
       IN IF private /\ token_missing(t)
          THEN /\ trace' = Append(trace, Ev("token_missing", TRUE))
               /\ EndTick
               /\ UNCHANGED repo
          ELSE \E out \in fetch(repo, server_head, t) :
                  /\ repo' = out.repo
                  /\ trace' = trace
                        \o (IF token_missing(t) THEN <<>>
                            ELSE <<Ev("remote_get_url", TRUE), Ev("config_url", TRUE)>>)
                        \o <<Ev("fetch", out.ok)>>
                  /\ IF out.ok
                     THEN pc' = "has_changes" /\ UNCHANGED last_check_time
                     ELSE EndTick
    /\ UNCHANGED <<ConfigVars, SetupVars, config_data, running, interrupted,
                   start_result, exit_code, now, current_time, check_interval,
                   commits, server_head, keyring, tick, ticks>>

check_has_changes_auto_merge ==
    /\ pc = "has_changes"
    /\ \E ok1 \in BOOLEAN, ok2 \in BOOLEAN :
          LET local_head == get_local_head(repo, ok1)
              remote_head == get_remote_head(repo, ok2)
              drift == has_changes(local_head, remote_head)
          IN /\ tick' = [tick EXCEPT !.compared = TRUE,
                                     !.local_head = local_head,
                                     !.remote_head = remote_head,
                                     !.drift = drift]
             /\ trace' = trace
                   \o <<Ev("rev_parse_head", ok1), Ev("rev_parse_remote", ok2)>>
                   \o (IF drift THEN <<Ev("log", TRUE)>> ELSE <<>>)
             /\ pc' = IF ~drift THEN "local"
                      ELSE IF is_auto_push_enabled(config_data) THEN "merge"
                      ELSE "ask_merge"
    /\ UNCHANGED <<ConfigVars, SetupVars, config_data, running, interrupted,
                   start_result, exit_code, now, LoopLocals, GitVars, keyring,
                   ticks>>

check_has_changes_ask_once ==
    /\ pc = "has_changes"
    /\ \E ok1 \in BOOLEAN, ok2 \in BOOLEAN :
          LET local_head == get_local_head(repo, ok1)
              remote_head == get_remote_head(repo, ok2)
              drift == has_changes(local_head, remote_head)
          IN /\ tick' = [tick EXCEPT !.compared = TRUE,
                                     !.local_head = local_head,
                                     !.remote_head = remote_head,
                                     !.drift = drift]
             /\ trace' = trace
                   \o <<Ev("rev_parse_head", ok1), Ev("rev_parse_remote", ok2)>>
                   \o (IF drift THEN <<Ev("log", TRUE)>> ELSE <<>>)
             /\ pc' = IF drift /\ ticks = 1 THEN "ask_merge" ELSE "local"
    /\ UNCHANGED <<ConfigVars, SetupVars, config_data, running, interrupted,
                   start_result, exit_code, now, LoopLocals, GitVars, keyring,
                   ticks>>

\* _check_for_changes: has_changes, and the summary shown on drift.
check_has_changes ==
    /\ pc = "has_changes"
    /\ \E ok1 \in BOOLEAN, ok2 \in BOOLEAN :
          LET local_head == get_local_head(repo, ok1)
              remote_head == get_remote_head(repo, ok2)
              drift == has_changes(local_head, remote_head)
          IN /\ tick' = [tick EXCEPT !.compared = TRUE,
                                     !.local_head = local_head,
                                     !.remote_head = remote_head,
                                     !.drift = drift]
             /\ trace' = trace
                   \o <<Ev("rev_parse_head", ok1), Ev("rev_parse_remote", ok2)>>
                   \o (IF drift THEN <<Ev("log", TRUE)>> ELSE <<>>)
             /\ pc' = IF drift THEN "ask_merge" ELSE "local"
    /\ UNCHANGED <<ConfigVars, SetupVars, config_data, running, interrupted,
                   start_result, exit_code, now, LoopLocals, GitVars, keyring,
                   ticks>>

\* _handle_remote_changes: the merge confirmation prompt.
ask_merge ==
    /\ pc = "ask_merge"
    /\ \E reply \in Replies, wait \in 0..MaxPromptWait :
          /\ now' = IF now + wait <= MaxTime THEN now + wait ELSE MaxTime
          /\ tick' = [tick EXCEPT !.merge_reply = reply]
          /\ trace' = Append(trace, Ev("ask_merge", reply.kind = "answer"))
          /\ pc' = IF reply.kind = "answer" /\ Approves(reply.text)
                   THEN "merge" ELSE "local"
    /\ UNCHANGED <<ConfigVars, SetupVars, config_data, running, interrupted,
                   start_result, exit_code, LoopLocals, GitVars, keyring,
                   ticks>>

\* _handle_remote_changes: the merge after approval.
do_merge ==
    /\ pc = "merge"
    /\ \E out \in merge_remote_changes(repo, commits) :
          /\ repo' = out.repo
          /\ commits' = out.commits
          /\ trace' = Append(trace, Ev("merge", out.ok))
    /\ tick' = [tick EXCEPT !.head_pre_merge = repo.head,
                            !.track_pre_merge = repo.track]
    /\ pc' = "local"
    /\ UNCHANGED <<ConfigVars, SetupVars, config_data, running, interrupted,
                   start_result, exit_code, now, LoopLocals, server_head,
                   keyring, ticks>>

check_local_unless_remote ==
    /\ pc = "local"
    /\ \E ok \in BOOLEAN :
          LET changed == ~tick.drift /\ has_local_changes(repo, ok)
              auto == is_auto_push_enabled(config_data)
          IN /\ trace' = trace \o <<Ev("status_porcelain", ok)>>
                   \o (IF changed THEN <<Ev("handle_local", TRUE)>> ELSE <<>>)
                   \o (IF changed /\ auto THEN <<Ev("status", TRUE)>> ELSE <<>>)
             /\ IF changed /\ auto
                THEN /\ pc' = IF is_confirm_push_enabled(config_data)
                              THEN "ask_push" ELSE "add"
                     /\ UNCHANGED last_check_time
                ELSE EndTick
    /\ UNCHANGED <<ConfigVars, SetupVars, config_data, running, interrupted,
                   start_result, exit_code, now, current_time, check_interval,
                   GitVars, keyring, tick, ticks>>

\* _check_for_changes: has_local_changes, then _handle_local_changes up to
\* the prompt.
check_local ==
    /\ pc = "local"
    /\ \E ok \in BOOLEAN :
          LET changed == has_local_changes(repo, ok)
              auto == is_auto_push_enabled(config_data)
          IN /\ trace' = trace \o <<Ev("status_porcelain", ok)>>
                   \o (IF changed THEN <<Ev("handle_local", TRUE)>> ELSE <<>>)
                   \o (IF changed /\ auto THEN <<Ev("status", TRUE)>> ELSE <<>>)
             /\ IF changed /\ auto
                THEN /\ pc' = IF is_confirm_push_enabled(config_data)
                              THEN "ask_push" ELSE "add"
                     /\ UNCHANGED last_check_time
                ELSE EndTick
    /\ UNCHANGED <<ConfigVars, SetupVars, config_data, running, interrupted,
                   start_result, exit_code, now, current_time, check_interval,
                   GitVars, keyring, tick, ticks>>

ask_push_ungated ==
    /\ pc = "ask_push"
    /\ \E reply \in Replies, wait \in 0..MaxPromptWait :
          /\ now' = IF now + wait <= MaxTime THEN now + wait ELSE MaxTime
          /\ tick' = [tick EXCEPT !.push_reply = reply]
          /\ trace' = Append(trace, Ev("ask_push", reply.kind = "answer"))
          /\ IF reply.kind = "answer"
             THEN pc' = "add" /\ UNCHANGED last_check_time
             ELSE EndTick
    /\ UNCHANGED <<ConfigVars, SetupVars, config_data, running, interrupted,
                   start_result, exit_code, current_time, check_interval,
                   GitVars, keyring, ticks>>

\* _handle_local_changes: the push confirmation prompt.
ask_push ==
    /\ pc = "ask_push"
    /\ \E reply \in Replies, wait \in 0..MaxPromptWait :
          /\ now' = IF now + wait <= MaxTime THEN now + wait ELSE MaxTime
          /\ tick' = [tick EXCEPT !.push_reply = reply]
          /\ trace' = Append(trace, Ev("ask_push", reply.kind = "answer"))
          /\ IF reply.kind = "answer" /\ Approves(reply.text)
             THEN pc' = "add" /\ UNCHANGED last_check_time
             ELSE EndTick
    /\ UNCHANGED <<ConfigVars, SetupVars, config_data, running, interrupted,
                   start_result, exit_code, current_time, check_interval,
                   GitVars, keyring, ticks>>

do_add_ignore_failure ==
    /\ pc = "add"
    /\ \E out \in add_all(repo) :
          /\ repo' = out.repo
          /\ trace' = Append(trace, Ev("add", out.ok))
          /\ pc' = "commit"
    /\ UNCHANGED <<ConfigVars, SetupVars, config_data, running, interrupted,
                   start_result, exit_code, now, LoopLocals, commits,
                   server_head, keyring, tick, ticks>>

\* _push_local_changes: add_all.
do_add ==
    /\ pc = "add"
    /\ \E out \in add_all(repo) :
          /\ repo' = out.repo
          /\ trace' = Append(trace, Ev("add", out.ok))
          /\ IF out.ok
             THEN pc' = "commit" /\ UNCHANGED last_check_time
             ELSE EndTick
    /\ UNCHANGED <<ConfigVars, SetupVars, config_data, running, interrupted,
                   start_result, exit_code, now, current_time, check_interval,
                   commits, server_head, keyring, tick, ticks>>

\* _push_local_changes: commit.
do_commit ==
    /\ pc = "commit"
    /\ \E out \in commit(repo, commits) :
          /\ repo' = out.repo
          /\ commits' = out.commits
          /\ trace' = Append(trace, Ev("commit", out.ok))
          /\ IF out.ok
             THEN pc' = "push" /\ UNCHANGED last_check_time
             ELSE EndTick
    /\ tick' = [tick EXCEPT !.head_pre_commit = repo.head]
    /\ UNCHANGED <<ConfigVars, SetupVars, config_data, running, interrupted,
                   start_result, exit_code, now, current_time, check_interval,
                   server_head, keyring, ticks>>

do_push_unless_stopped ==
    /\ pc = "push"
    /\ LET private == is_private_repo(config_data)
           t == IF private THEN get_token(keyring) ELSE NoToken
       IN IF ~running
          THEN /\ UNCHANGED <<repo, server_head, trace>>
          ELSE IF private /\ token_missing(t)
          THEN /\ trace' = Append(trace, Ev("token_missing_push", TRUE))
               /\ UNCHANGED <<repo, server_head>>
          ELSE \E out \in push(repo, commits, server_head, t) :
                  /\ repo' = out.repo
                  /\ server_head' = out.server
                  /\ trace' = trace
                        \o (IF token_missing(t) THEN <<>>
                            ELSE <<Ev("remote_get_url", TRUE), Ev("config_url", TRUE)>>)
                        \o <<Ev("push", out.ok)>>
    /\ EndTick
    /\ UNCHANGED <<ConfigVars, SetupVars, config_data, running, interrupted,
                   start_result, exit_code, now, current_time, check_interval,
                   commits, keyring, tick, ticks>>

\* _push_local_changes: token lookup and push.
do_push ==
    /\ pc = "push"
    /\ LET private == is_private_repo(config_data)
           t == IF private THEN get_token(keyring) ELSE NoToken
       IN IF private /\ token_missing(t)
          THEN /\ trace' = Append(trace, Ev("token_missing_push", TRUE))
               /\ UNCHANGED <<repo, server_head>>
          ELSE \E out \in push(repo, commits, server_head, t) :
                  /\ repo' = out.repo
                  /\ server_head' = out.server
                  /\ trace' = trace
                        \o (IF token_missing(t) THEN <<>>
                            ELSE <<Ev("remote_get_url", TRUE), Ev("config_url", TRUE)>>)
                        \o <<Ev("push", out.ok)>>
    /\ EndTick
    /\ UNCHANGED <<ConfigVars, SetupVars, config_data, running, interrupted,
                   start_result, exit_code, now, current_time, check_interval,
                   commits, keyring, tick, ticks>>

\* ---------------------------------------------------------- environment
\* tick.external records a change made by someone else once the tick has
\* run add_all.
\* Someone else pushes a commit to the branch on the server.
remote_advance ==
    /\ pc \in LoopPositions
    /\ Len(commits) < MaxCommits
    /\ commits' = NewCommit(commits, {server_head})
    /\ server_head' = Len(commits) + 1
    /\ tick' = [tick EXCEPT !.external = tick.external \/ Invoked("add")]
    /\ UNCHANGED <<ConfigVars, SetupVars, config_data, running, interrupted,
                   pc, start_result, exit_code, now, LoopLocals, repo,
                   keyring, trace, ticks>>

\* The user edits a file of the working tree.
user_edit ==
    /\ pc \in LoopPositions
    /\ ~repo.dirty
    /\ repo' = [repo EXCEPT !.dirty = TRUE]
    /\ tick' = [tick EXCEPT !.external = tick.external \/ Invoked("add")]
    /\ UNCHANGED <<ConfigVars, SetupVars, config_data, running, interrupted,
                   pc, start_result, exit_code, now, LoopLocals, commits,
                   server_head, keyring, trace, ticks>>

\* The keyring entry is stored, emptied or deleted (the scheduler reads the
\* entry only for a private repository).
token_change ==
    /\ pc \in LoopPositions
    /\ is_private_repo(config_data)
    /\ \E t \in TokenValues \ {keyring} :
          /\ keyring' = t
          /\ tick' = [tick EXCEPT !.token_absent = tick.token_absent /\ t \in {NoToken, EmptyToken}]
    /\ UNCHANGED <<ConfigVars, SetupVars, config_data, running, interrupted,
                   pc, start_result, exit_code, now, LoopLocals, GitVars,
                   trace, ticks>>

Next ==
    \/ start
    \/ stop
    \/ interrupt
    \/ main_loop
    \/ sleep
    \/ check_fetch
    \/ check_has_changes
    \/ ask_merge
    \/ do_merge
    \/ check_local
    \/ ask_push
    \/ do_add
    \/ do_commit
    \/ do_push
    \/ remote_advance
    \/ user_edit
    \/ token_change

Spec == Init /\ [][Next]_vars

\* The steps of the scheduler's own thread inside _main_loop.
LoopStep ==
    \/ main_loop
    \/ sleep
    \/ check_fetch
    \/ check_has_changes
    \/ ask_merge
    \/ do_merge
    \/ check_local
    \/ ask_push
    \/ do_add
    \/ do_commit
    \/ do_push

\* The scheduler started on a private repository with auto_push and
\* confirm_push on.
FairInit ==
    /\ Init
    /\ config_file = "object"
    /\ file_data["auto_push"] = JBool(TRUE)
    /\ file_data["confirm_push"] = JBool(TRUE)
    /\ file_data["is_private"] = JBool(TRUE)
    /\ is_repo_dir

\* The scheduler's thread keeps running: every git command and time.sleep
\* return, and the user answers every prompt (or closes the input).
FairSpec == FairInit /\ [][Next]_vars /\ WF_vars(LoopStep)

\* ------------------------------------------------------- GitManager.clone
\* URLs given to clone: the origin URLs and every URL of up to MaxUrlLen
\* pieces.
CloneUrls ==
    OriginUrls \cup {OtherHostUrl}
       \cup UNION {[1..n -> UrlAtoms] : n \in 0..MaxUrlLen}

\* The setup wizard is about to call clone(url, branch, token): there is no
\* repository at project_path yet and the scheduler is not started.
InitClone ==
    /\ config_file = "missing"
    /\ file_data = EmptyConfig
    /\ config_data = EmptyConfig
    /\ is_repo_dir = FALSE
    /\ running = FALSE
    /\ pc = "setup"
    /\ start_result = "none"
    /\ exit_code = -1
    /\ now = StartTime
    /\ current_time = 0
    /\ last_check_time = 0
    /\ check_interval = 0
    /\ commits = <<{}>>
    /\ server_head = 1
    /\ repo = [head |-> None, track |-> None, dirty |-> FALSE, staged |-> FALSE,
               merging |-> FALSE, merge_head |-> None, url |-> <<>>]
    /\ keyring \in TokenValues
    /\ tick = NewTick(repo, keyring)
    /\ trace = <<>>
    /\ ticks = 0
    /\ interrupted = "no"
    /\ clone_call \in [url : CloneUrls, token : {NoToken, keyring},
                        ran : {FALSE}, passed : {<<>>}]
    /\ run_call = NoRunCall
    /\ reconf = NoReconf

\* GitManager.clone: the URL passed to `git clone`, and on success the
\* repository it creates, whose remote.origin.url is that URL.
clone ==
    /\ pc = "setup"
    /\ ~clone_call.ran
    /\ LET passed == clone_url(clone_call.url, clone_call.token)
       IN /\ clone_call' = [clone_call EXCEPT !.ran = TRUE, !.passed = passed]
          /\ \E ok \in (IF Reaches(passed) THEN BOOLEAN ELSE {FALSE}) :
                /\ is_repo_dir' = ok
                /\ repo' = IF ok
                           THEN [repo EXCEPT !.head = 1, !.track = 1,
                                             !.url = passed]
                           ELSE repo
    /\ UNCHANGED <<config_file, file_data, config_data, running, pc,
                   start_result, exit_code, now, LoopLocals, commits,
                   server_head, keyring, tick, trace, ticks, interrupted,
                   run_call, reconf>>

NextClone == clone

SpecClone == InitClone /\ [][NextClone]_vars


\* -------------------------------------------- GitManager._run_git_command
\* Neither the setup wizard nor the scheduler is at work: a GitManager method
\* is called on its own.
Standalone ==
    /\ config_file = "missing"
    /\ file_data = EmptyConfig
    /\ config_data = EmptyConfig
    /\ is_repo_dir = TRUE
    /\ running = FALSE
    /\ start_result = "none"
    /\ exit_code = -1
    /\ now = StartTime
    /\ current_time = 0
    /\ last_check_time = 0
    /\ check_interval = 0
    /\ commits = <<{}>>
    /\ server_head = 1
    /\ repo = [head |-> 1, track |-> 1, dirty |-> FALSE, staged |-> FALSE,
               merging |-> FALSE, merge_head |-> None, url |-> HttpsUrl]
    /\ keyring = NoToken
    /\ tick = NewTick(repo, keyring)
    /\ trace = <<>>
    /\ ticks = 0
    /\ interrupted = "no"
    /\ clone_call = NoCloneCall

\* What subprocess.run does: the process runs to its end ("started"), or
\* subprocess.run raises: git or the working directory is missing, git is
\* not executable, the collected output is not UTF-8, or Ctrl-C arrives
\* while the process runs.
LaunchOutcomes ==
    {"started", "FileNotFoundError", "PermissionError", "UnicodeDecodeError",
     "KeyboardInterrupt"}

\* The exceptions that derive from Exception.
Exceptions == {"FileNotFoundError", "PermissionError", "UnicodeDecodeError"}

ReturnCodes == {0, 1, 128}

\* What the process writes to a stream.
OutputTexts == {<<>>, <<"text">>}

\* GIT_TERMINAL_PROMPT in os.environ.
EnvironValues == {"unset", "0", "1"}

run_git_command_inherit_environ(call) ==
    IF call.launch = "started"
    THEN [raised |-> "none", ok |-> call.returncode = 0,
          stdout |-> IF call.capture_output THEN call.out ELSE <<>>,
          stderr |-> IF call.capture_output THEN call.err ELSE <<>>,
          env |-> call.environ]
    ELSE IF call.launch \in Exceptions
    THEN [raised |-> "none", ok |-> FALSE, stdout |-> <<>>,
          stderr |-> <<"Erreur lors de l'execution de la commande Git: ",
                       call.launch>>,
          env |-> call.environ]
    ELSE [raised |-> call.launch, ok |-> FALSE, stdout |-> <<>>,
          stderr |-> <<>>, env |-> call.environ]

\* GitManager._run_git_command: the triple it returns, the exception that
\* leaves it, and GIT_TERMINAL_PROMPT in the environment given to
\* subprocess.run.
run_git_command(call) ==
    IF call.launch = "started"
    THEN [raised |-> "none", ok |-> call.returncode = 0,
          stdout |-> IF call.capture_output THEN call.out ELSE <<>>,
          stderr |-> IF call.capture_output THEN call.err ELSE <<>>,
          env |-> "0"]
    ELSE IF call.launch \in Exceptions
    THEN [raised |-> "none", ok |-> FALSE, stdout |-> <<>>,
          stderr |-> <<"Erreur lors de l'execution de la commande Git: ",
                       call.launch>>,
          env |-> "0"]
    ELSE [raised |-> call.launch, ok |-> FALSE, stdout |-> <<>>,
          stderr |-> <<>>, env |-> "0"]

\* A call of _run_git_command is about to be made; the output is decoded
\* only when it is collected.
InitRun ==
    /\ Standalone
    /\ pc = "run"
    /\ reconf = NoReconf
    /\ run_call \in {c \in [capture_output : BOOLEAN, launch : LaunchOutcomes,
                             returncode : ReturnCodes, out : OutputTexts,
                             err : OutputTexts, environ : EnvironValues,
                             ran : {FALSE}, result : {NoResult}] :
                        c.launch = "UnicodeDecodeError" => c.capture_output}

call_run_git_command ==
    /\ pc = "run"
    /\ ~run_call.ran
    /\ run_call' = [run_call EXCEPT !.ran = TRUE,
                                    !.result = run_git_command(run_call)]
    /\ UNCHANGED <<ConfigVars, config_data, running, pc, start_result,
                   exit_code, now, LoopLocals, GitVars, keyring, tick, trace,
                   ticks, interrupted, clone_call, reconf>>

NextRun == call_run_git_command

SpecRun == InitRun /\ [][NextRun]_vars

\* --------------------------------- remote.origin.url under fetch and push
\* Owners and repository names of GitHub, in pieces: an owner has no dot, a
\* name may have dots and may be or contain github.com, but is neither made
\* of dots only nor ends in .git.
Owners == {<<"u">>, <<"github">>}

NameAtoms == {"r", ".", "github.com"}

RepoNames ==
    {n \in UNION {[1..k -> NameAtoms] : k \in 1..MaxNameLen} :
        \E i \in 1..Len(n) : n[i] # "."}

\* https://github.com/<owner>/<repo>[.git]
GitHubUrl(owner, name, suffix) ==
    <<"https://", "github.com", "/">> \o owner \o <<"/">> \o name
        \o (IF suffix THEN <<".git">> ELSE <<>>)

\* A repository cloned from a GitHub https URL, before its first fetch or
\* push with the token.
InitReconfigure ==
    /\ Standalone
    /\ pc = "reconfigure"
    /\ run_call = NoRunCall
    /\ \E owner \in Owners, name \in RepoNames, suffix \in BOOLEAN,
          token \in TokenValues :
          reconf = [owner |-> owner, name |-> name,
                    origin |-> GitHubUrl(owner, name, suffix),
                    url |-> GitHubUrl(owner, name, suffix),
                    token |-> token, applied |-> 0]

\* The `git config remote.origin.url ...` at the head of fetch and of push.
set_remote_url ==
    /\ pc = "reconfigure"
    /\ reconf.applied < MaxApply
    /\ reconf' = [reconf EXCEPT !.url = configure_token(reconf.url, reconf.token),
                                !.applied = reconf.applied + 1]
    /\ UNCHANGED <<ConfigVars, config_data, running, pc, start_result,
                   exit_code, now, LoopLocals, GitVars, keyring, tick, trace,
                   ticks, interrupted, clone_call, run_call>>

NextReconfigure == set_remote_url

SpecReconfigure == InitReconfigure /\ [][NextReconfigure]_vars

\* ================================================================ claims
\* The configuration as the claims read it.
NonEmpty(v) == v.k \notin {"missing", "null"} /\ ~(v.k = "str" /\ v.s = <<>>)

IntervalPositive(v) ==
    CASE v.k \in {"int", "bool", "float"} -> v.n > 0
      [] v.k = "str" -> PyInt(v).exc = "none" /\ PyInt(v).val > 0
      [] OTHER -> FALSE

RequiredConfigOk ==
    /\ config_file = "object"
    /\ \A key \in RequiredKeys : NonEmpty(file_data[key])
    /\ IntervalPositive(file_data["check_interval"])

AutoPush == config_data["auto_push"] = JBool(TRUE)

ConfirmPush == config_data["confirm_push"] \in {JMissing, JBool(TRUE)}

IsPrivate == config_data["is_private"] = JBool(TRUE)

CredentialAbsent == keyring \in {NoToken, EmptyToken}

UserSaid(reply, text) == reply = [kind |-> "answer", text |-> text]

\* the step appends an invocation of cmd to the trace
Invokes(cmd) ==
    /\ Len(trace') > Len(trace)
    /\ \E i \in (Len(trace) + 1)..Len(trace') : trace'[i].cmd = cmd

\* C1: start enters the poll loop (running, a tick, a git command) only if
\* the configuration file loaded with the four required keys non-empty and
\* a positive check_interval and the path is a repository; in every other
\* case start returns False, the exit code is 1, running stays false and no
\* tick runs.
C1_StartContract ==
    /\ (running \/ ticks > 0 \/ trace # <<>> \/ pc \in LoopPositions)
          => (RequiredConfigOk /\ is_repo_dir)
    /\ (pc # "init" /\ ~(RequiredConfigOk /\ is_repo_dir))
          => (start_result = "False" /\ exit_code = 1 /\ ~running /\ ticks = 0)

\* C2: in every tick the merge command is invoked only after a successful
\* fetch, with both heads resolved and different, and after the user was
\* asked in that tick and approved, whatever auto_push and confirm_push are;
\* with equal heads there is neither a merge nor a merge prompt.
C2_MergeOnlyOnApprovedDrift ==
    /\ (Invoked("merge") \/ pc = "merge") =>
          /\ Succeeded("fetch")
          /\ tick.compared
          /\ tick.local_head # None /\ tick.remote_head # None
          /\ tick.local_head # tick.remote_head
          /\ Invoked("ask_merge")
          /\ UserSaid(tick.merge_reply, <<" ", "Y">>)
    /\ (tick.compared /\ tick.local_head = tick.remote_head) =>
          (~Invoked("merge") /\ ~Invoked("ask_merge") /\ pc \notin {"ask_merge", "merge"})

C2_Witness ==
    /\ Succeeded("merge")
    /\ AutoPush /\ ~ConfirmPush

\* C3: with auto_push false (or absent), whatever confirm_push and
\* is_private are, no tick invokes add, commit or push or asks for a push
\* confirmation.
C3_NoPublishWithoutAutoPush ==
    (config_data["auto_push"] \in {JMissing, JBool(FALSE)}) =>
        /\ ~Invoked("add") /\ ~Invoked("commit") /\ ~Invoked("push")
        /\ ~Invoked("ask_push")
        /\ pc \notin {"ask_push", "add", "commit", "push"}

C3_Witness ==
    /\ config_data["auto_push"] = JBool(FALSE)
    /\ IsPrivate
    /\ pc = "sleep"
    /\ Succeeded("status_porcelain")
    /\ repo.dirty

\* C4 (as claimed): with auto_push and confirm_push on and a dirty tree, add
\* and commit are performed whether or not the user approves; only the push
\* depends on the answer.
C4_PromptGatesPushOnly ==
    (pc = "sleep" /\ AutoPush /\ ConfirmPush /\ tick.push_reply.kind = "answer")
        => (Invoked("add") /\ (Succeeded("add") => Invoked("commit")))

\* C4 (amended): with auto_push and confirm_push on, the prompt gates the
\* whole publish sequence: add, commit and push are invoked only after the
\* user approved, and none of them is invoked when the user declines.
C4_PromptGatesPublish ==
    (AutoPush /\ ConfirmPush) =>
        /\ (Invoked("add") \/ Invoked("commit") \/ Invoked("push")
              \/ pc \in {"add", "commit", "push"})
              => UserSaid(tick.push_reply, <<" ", "Y">>)
        /\ UserSaid(tick.push_reply, <<"n">>)
              => (~Invoked("add") /\ ~Invoked("commit") /\ ~Invoked("push"))

C4_Witness ==
    /\ AutoPush /\ ConfirmPush
    /\ pc = "sleep"
    /\ UserSaid(tick.push_reply, <<"n">>)
    /\ repo.dirty


C6_NoCommandWithoutCredential ==
    [][(IsPrivate /\ CredentialAbsent) => ~(Invokes("fetch") \/ Invokes("push"))]_vars

C6_Witness ==
    /\ IsPrivate /\ CredentialAbsent
    /\ Invoked("token_missing_push")

\* C7: within a tick add, commit and push are each invoked at most once, in
\* that order, and each only after the one before it succeeded.
C7_PublishInOrder ==
    /\ Count("add") <= 1 /\ Count("commit") <= 1 /\ Count("push") <= 1
    /\ (Invoked("commit") \/ pc = "commit") => Succeeded("add")
    /\ (Invoked("push") \/ Invoked("token_missing_push") \/ pc = "push")
          => Succeeded("commit")
    /\ Invoked("commit") => Position("add") < Position("commit")
    /\ Invoked("push") => Position("commit") < Position("push")

C7_Witness ==
    /\ pc = "sleep"
    /\ Invoked("add") /\ ~Succeeded("add")
    /\ repo.dirty

\* C8: has_changes is true exactly when both heads resolved to commit ids
\* and the ids differ; a failed resolution gives false.
C8_DriftIffResolvedAndDiffer ==
    tick.compared =>
        /\ tick.drift <=> (/\ tick.local_head # None
                           /\ tick.remote_head # None
                           /\ tick.local_head # tick.remote_head)
        /\ (tick.local_head = None \/ tick.remote_head = None) => ~tick.drift
        /\ (pc = "ask_merge") => tick.drift

C8_Witness ==
    /\ tick.compared
    /\ tick.local_head = None /\ tick.remote_head # None
    /\ repo.head # repo.track
    /\ ~tick.drift

\* C9: with local head A and remote head B different from A, when the user
\* declines the merge prompt, the remote handling of the tick invokes no
\* merge and the local head is still A when it returns.
C9_DeclineKeepsHead ==
    UserSaid(tick.merge_reply, <<"n">>) =>
        /\ ~Invoked("merge") /\ pc # "merge"
        /\ pc = "local" => repo.head = tick.local_head

C9_Witness ==
    /\ UserSaid(tick.merge_reply, <<"n">>)
    /\ pc = "local"
    /\ tick.drift /\ tick.local_head # tick.remote_head

\* C10 (as claimed): after a confirmed, successful merge of remote head B
\* the local head is an ancestor of B or B itself.
C10_HeadAncestorOfRemote ==
    (pc = "local" /\ Succeeded("merge"))
        => IsAncestorOrEqual(commits, repo.head, tick.remote_head)

\* C10 (amended): after a confirmed, successful merge of remote head B into
\* local head A, B is an ancestor of the local head or the local head
\* itself, and the local head is B exactly when A was an ancestor of B.
C10_RemoteAncestorOfHead ==
    (pc = "local" /\ Succeeded("merge")) =>
        /\ IsAncestorOrEqual(commits, tick.remote_head, repo.head)
        /\ IsAncestorOrEqual(commits, tick.local_head, repo.head)
        /\ (repo.head = tick.remote_head)
              <=> IsAncestorOrEqual(commits, tick.local_head, tick.remote_head)

C10_Witness ==
    /\ pc = "local" /\ Succeeded("merge")
    /\ commits[repo.head] = {tick.local_head, tick.remote_head}

\* C11: after a tick in which add, commit and push all succeeded, and with
\* no change by anyone else since the add, running the detection again
\* (fetch, has_changes, has_local_changes) finds no local change and no
\* remote drift, whatever the outcomes of its commands.
C11_RoundTrip ==
    (/\ pc = "sleep"
     /\ Succeeded("add") /\ Succeeded("commit") /\ Succeeded("push")
     /\ ~tick.external)
        => /\ \A ok \in BOOLEAN : ~has_local_changes(repo, ok)
           /\ \A t \in TokenValues :
                 \A out \in fetch(repo, server_head, t) :
                    out.ok =>
                       \A ok1 \in BOOLEAN, ok2 \in BOOLEAN :
                          ~has_changes(get_local_head(out.repo, ok1),
                                       get_remote_head(out.repo, ok2))

C11_Witness ==
    /\ pc = "sleep"
    /\ Succeeded("add") /\ Succeeded("commit") /\ Succeeded("push")
    /\ ~tick.external
    /\ tick.dirty0 /\ repo.head # tick.head0

\* C12 (as claimed): once the merge of a tick has failed, the tick invokes
\* no add, commit or push, and the local head stays where the failed merge
\* left it, whatever auto_push and confirm_push are.
C12_NothingAfterFailedMerge ==
    (Invoked("merge") /\ ~Succeeded("merge")) =>
        /\ ~Invoked("add") /\ ~Invoked("commit") /\ ~Invoked("push")
        /\ pc \notin {"add", "commit", "push"}
        /\ repo.head = tick.head_pre_merge

\* C13 (as claimed): remote.origin.url of the repository never contains the
\* token.
C13_TokenNeverStored == ~Contains(repo.url, TokenText(Tok))

\* C14 (as claimed): remote.origin.url changes only in a step that has a
\* token to give and finds an https:// URL stored; and clone passes its url
\* argument unchanged without a token or with a URL that is not https://.
C14_RewriteOnlyHttpsWithToken ==
    /\ [][(~IsPrivate \/ CredentialAbsent
             \/ ~StartsWith(repo.url, <<"https://">>))
            => repo'.url = repo.url]_vars
    /\ [](clone_call.ran
            /\ (clone_call.token \in {NoToken, EmptyToken}
                  \/ ~StartsWith(clone_call.url, <<"https://">>))
          => clone_call.passed = clone_call.url)

\* C15: clone with token T and https://github.com/u/r.git passes
\* https://T@github.com/u/r.git to `git clone`; a URL that does not start
\* with https:// is passed as it was given, token or not.
C15_CloneUrl ==
    clone_call.ran =>
        /\ (clone_call.url = HttpsUrl /\ clone_call.token = Tok)
              => clone_call.passed =
                    <<"https://", "T", "@", "github.com", "/", "u/r", ".git">>
        /\ ~StartsWith(clone_call.url, <<"https://">>)
              => clone_call.passed = clone_call.url

C15_Witness ==
    /\ clone_call.ran
    /\ clone_call.url = SshUrl
    /\ clone_call.token = Tok
    /\ is_repo_dir

\* C16: a tick whose fetch succeeded and which found remote drift still
\* checks the local tree after the remote handler, whether the merge was
\* declined, failed, or the prompt raised; and when that check finds local
\* changes the local handler is called, after the remote one.
C16_BothHandlersRun ==
    /\ []((pc = "sleep" /\ Succeeded("fetch") /\ tick.drift)
            => /\ Invoked("log") /\ Invoked("status_porcelain")
               /\ Position("log") < Position("status_porcelain"))
    /\ [][(/\ pc = "local" /\ pc' # "local" /\ interrupted' = interrupted
            /\ Succeeded("fetch") /\ tick.drift
            /\ (repo.dirty \/ repo.staged \/ repo.merging)
            /\ trace'[Len(trace) + 1] = Ev("status_porcelain", TRUE))
           => /\ Invokes("handle_local")
              /\ Invoked("log")]_vars

C16_Witness ==
    /\ pc = "sleep"
    /\ tick.drift
    /\ Invoked("merge") /\ ~Succeeded("merge")
    /\ Invoked("handle_local")
    /\ ~AutoPush

\* the step appends a failed command, or a prompt that raised, to the trace
InvokesFailure ==
    /\ Len(trace') > Len(trace)
    /\ \E i \in (Len(trace) + 1)..Len(trace') : ~trace'[i].ok

\* a command or prompt of the current tick has failed
FailedInTick == \E i \in 1..Len(trace) : ~trace[i].ok

\* C17: a step in which a command of the tick fails leaves running true and
\* the process in the loop; running becomes false only by stop or by an
\* interrupt; and after a failure in a tick that began early enough for the
\* interval to elapse before the clock's bound, a later tick starts unless
\* running is set to false.
C17_LoopSurvivesFailure ==
    /\ [][InvokesFailure => (running' = running /\ pc' \in LoopPositions)]_vars
    /\ [][(running /\ ~running')
            => (interrupted' # "no" \/ (pc' = pc /\ trace' = trace))]_vars
    /\ \A n \in 1..(MaxTime - StartTime) :
          (/\ ticks = n /\ running /\ pc \in LoopPositions /\ FailedInTick
           /\ current_time + check_interval <= MaxTime)
             ~> (ticks > n \/ ~running)

C17_Witness ==
    /\ ticks = 2
    /\ running
    /\ pc = "fetch"
    /\ last_check_time = StartTime
    /\ repo.dirty /\ repo.staged

\* the positions inside a tick
TickPositions == LoopPositions \ {"loop", "sleep"}

\* C18: once stop has set running to false (and no interrupt arrives), a
\* tick in progress goes on through its steps, each invoking its command or
\* prompt, until it returns to the loop; the loop then starts no new tick
\* and exits at its next evaluation of the condition, start returning True.
C18_StopIsGraceful ==
    [][(~running /\ pc \in LoopPositions /\ interrupted' = interrupted) =>
          /\ ticks' = ticks
          /\ pc \in TickPositions => pc' \in TickPositions \cup {"sleep"}
          /\ (pc \in TickPositions /\ pc' # pc) => Len(trace') > Len(trace)
          /\ pc = "sleep" => pc' \in {"sleep", "loop"}
          /\ pc = "loop" => pc' \in {"loop", "exited"}
          /\ pc' = "exited" => (start_result' = "True" /\ exit_code' = 0)]_vars

C18_Witness ==
    /\ ~running
    /\ interrupted = "no"
    /\ pc = "push"
    /\ Succeeded("merge") /\ Succeeded("commit")

\* C19: a KeyboardInterrupt raised while the loop sleeps, while a tick runs
\* or while a prompt waits sets running to false and ends the process with
\* start returning True and exit code 0; no tick starts afterwards.
C19_InterruptIsGraceful ==
    /\ [](interrupted # "no"
            => /\ ~running /\ pc = "exited"
               /\ start_result = "True" /\ exit_code = 0)
    /\ [][interrupted # "no" => (ticks' = ticks /\ pc' = pc)]_vars
    /\ [][interrupted' # interrupted
            => (pc \in LoopPositions /\ ticks' = ticks /\ exit_code' = 0)]_vars

C19_Witness ==
    /\ interrupted = "prompt"
    /\ pc = "exited"
    /\ repo.merging

\* C20: ticks starts only one at a time, at a wake of the loop at which
\* now - last_check_time >= check_interval, and the tick runs from there;
\* when the tick returns last_check_time is the time of that wake, and it
\* changes at no other step of the loop; so the wakes of two consecutive
\* ticks are at least check_interval apart, and a second tick needs another
\* wake after a sleep.
C20_TickOnlyWhenIntervalElapsed ==
    /\ [][ticks' # ticks
            => /\ ticks' = ticks + 1
               /\ pc = "loop" /\ pc' = "fetch"
               /\ now - last_check_time >= check_interval
               /\ current_time' = now /\ now' = now]_vars
    /\ [][(pc \in TickPositions /\ pc' = "sleep")
            => last_check_time' = current_time]_vars
    /\ [][(last_check_time' # last_check_time /\ pc' # "exited")
            => (pc \in TickPositions /\ pc' = "sleep")]_vars
    /\ [][(current_time' # current_time /\ pc' # "exited") => pc = "loop"]_vars
    /\ [][(pc' = "loop" /\ pc # "loop") => pc \in {"init", "sleep"}]_vars
    /\ []((pc \in TickPositions /\ ticks > 1)
            => current_time - last_check_time >= check_interval)

C20_Witness ==
    /\ pc = "sleep"
    /\ ticks = 1
    /\ trace = <<>>
    /\ current_time > last_check_time
    /\ current_time - last_check_time < check_interval

\* a prompt of the current tick has blocked
Prompted == Invoked("ask_merge") \/ Invoked("ask_push")

\* C21 (as claimed): the time a prompt blocks does not count toward the
\* interval: when a tick that prompted returns, with an interval of more
\* than the one-second sleep, the earliest wake at which the next tick can
\* start (last_check_time + check_interval) is no earlier than a full
\* interval after the return.
C21_PromptTimeNotCounted ==
    (pc = "sleep" /\ trace # <<>> /\ Prompted /\ check_interval > 1)
        => last_check_time + check_interval >= now + check_interval

\* C21 (amended): no tick starts while a prompt blocks, but the time the
\* prompt took counts toward the interval: when the tick returns
\* last_check_time is the time of the wake that started it, which is before
\* the return when a prompt blocked, and the next tick starts at the first
\* wake at which check_interval has passed since that time.
C21_PromptTimeCounts ==
    /\ [][(pc \in {"ask_merge", "ask_push"}) => ticks' = ticks]_vars
    /\ []((pc = "sleep" /\ trace # <<>>)
            => (last_check_time = current_time /\ current_time <= now))
    /\ [][(/\ pc = "loop" /\ pc' \notin {"loop", "exited"} /\ running
            /\ now - last_check_time >= check_interval)
           => (ticks' = ticks + 1 /\ pc' = "fetch")]_vars

C21_Witness ==
    /\ pc = "sleep"
    /\ trace # <<>>
    /\ Prompted
    /\ check_interval = 2
    /\ now = last_check_time + 1

\* positions of the drift-detection part of a tick
DetectionPositions == {"fetch", "has_changes", "local"}

\* C22: the drift-detection part of a tick (credential lookup, fetch,
\* resolution of the heads, porcelain status) never mutates the repository:
\* every detection step leaves the working tree, the index, the local head,
\* the merge state and remote.origin.url as they were; only the
\* remote-tracking ref may change.
C22_DetectionNeverMutates ==
    [][(pc \in DetectionPositions /\ Len(trace') > Len(trace))
        => [repo' EXCEPT !.track = repo.track] = repo]_vars

\* the fetch of the current tick failed, or the tick was skipped because the
\* credential was missing at its first lookup
FetchFailedOrSkipped ==
    Invoked("token_missing") \/ (Invoked("fetch") /\ ~Succeeded("fetch"))

\* what a tick does after its fetch
AfterFetch ==
    {"rev_parse_head", "rev_parse_remote", "log", "ask_merge", "merge",
     "status_porcelain", "status", "handle_local", "ask_push", "add", "commit",
     "push", "token_missing_push"}

\* C25: when the fetch of a tick fails, or the tick is skipped for a missing
\* credential, the tick ends there: it has returned to the loop, the heads
\* were not compared, nothing that follows the fetch (head resolution, merge
\* prompt, merge, status, push prompt, add, commit, push) was invoked and the
\* local head and the commits are as at the start of the tick, whatever the
\* working tree and auto_push are.
C25_FailedFetchEndsTick ==
    FetchFailedOrSkipped
        => /\ pc \notin TickPositions
           /\ ~tick.compared
           /\ \A i \in 1..Len(trace) : trace[i].cmd \notin AfterFetch
           /\ trace[Len(trace)].cmd \in {"fetch", "token_missing"}
           /\ repo.head = tick.head0

C25_Witness ==
    /\ pc = "sleep"
    /\ Invoked("fetch") /\ ~Succeeded("fetch")
    /\ AutoPush /\ tick.dirty0 /\ repo.dirty

\* C27: merge convergence: after a tick in which the user confirmed the
\* merge and the merge command succeeded (and the tick made no commit of its
\* own), with the remote still where the tick fetched it, the detection of
\* the following tick (fetch, resolution of the two heads) finds
\* has_changes false, so no merge confirmation is requested; this also when
\* the local branch had commits of its own or was ahead of the remote.
C27_MergeConverges ==
    (/\ pc = "sleep"
     /\ UserSaid(tick.merge_reply, <<" ", "Y">>)
     /\ Succeeded("merge")
     /\ ~Invoked("commit")
     /\ server_head = repo.track)
        => \A t \in TokenValues :
              \A out \in fetch(repo, server_head, t) :
                 out.ok =>
                    \A ok1 \in BOOLEAN, ok2 \in BOOLEAN :
                       ~has_changes(get_local_head(out.repo, ok1),
                                    get_remote_head(out.repo, ok2))

\* the local head holds a commit the server does not have
Unpushed(head) == ~IsAncestorOrEqual(commits, head, server_head)

\* C26: every commit created by the auto-commit step is eventually pushed:
\* a later tick that starts with the commit still unpushed, with a clean
\* working tree and no edit since, with auto_push on, the credential
\* available, every command succeeding and every prompt approved, invokes
\* push for it.
C26_CommitEventuallyPushed ==
    (/\ pc = "sleep" /\ trace # <<>>
     /\ AutoPush
     /\ Unpushed(tick.head0) /\ Unpushed(repo.head)
     /\ ~tick.dirty0 /\ ~repo.dirty
     /\ ~(IsPrivate /\ tick.token_absent)
     /\ Succeeded("fetch")
     /\ \A i \in 1..Len(trace) : trace[i].ok
     /\ tick.merge_reply \in {NoReply, [kind |-> "answer", text |-> <<" ", "Y">>]})
        => Invoked("push")

\* C29: after a successful start the first tick runs at the first loop
\* iteration without waiting check_interval: the first wake with running true
\* starts tick 1 at the time start was called, the loop never sleeps before
\* a tick has started, tick 1 runs with last_check_time still 0, and while
\* no time has passed since the start at most one tick has started, so
\* exactly one tick has started at the first one-second sleep.
C29_FirstTickAtFirstIteration ==
    /\ [][(pc = "loop" /\ ticks = 0 /\ pc' \notin {"loop", "exited"})
            => (/\ pc' = "fetch" /\ ticks' = 1
                /\ last_check_time = 0
                /\ now' = now /\ now = StartTime)]_vars
    /\ [](pc \in (LoopPositions \ {"loop"}) => ticks >= 1)
    /\ []((pc \in TickPositions /\ ticks = 1) => last_check_time = 0)
    /\ []((pc \in LoopPositions /\ now = StartTime) => ticks <= 1)

C29_Witness ==
    /\ pc = "sleep"
    /\ ticks = 1
    /\ now = StartTime
    /\ check_interval > 1

\* the four answers that approve, as the user types them apart from case
\* and surrounding blanks
YesWords == {<<"o">>, <<"o", "u", "i">>, <<"y", "e", "s">>, <<"y">>}

\* the reply is an answer whose non-blank characters, lower-cased, spell one
\* of the four words
SaidYes(reply) ==
    /\ reply.kind = "answer"
    /\ \E w \in YesWords :
          LET typed == SelectSeq(reply.text, LAMBDA c : c # " ")
          IN /\ Len(typed) = Len(w)
             /\ \A i \in 1..Len(w) : typed[i] \in {w[i], IF w[i] = "y" THEN "Y" ELSE w[i],
                                                  IF w[i] = "o" THEN "O" ELSE w[i]}

\* C28: confirmation is default-deny.  After a merge prompt the merge is
\* invoked only when the answer is one of o, oui, yes, y (trimmed, any
\* case); after a push prompt add, commit and push are invoked only when the
\* answer is one of them; every other reply, the empty answer included,
\* results in no merge, respectively no add, commit or push, in that tick.
C28_DefaultDeny ==
    /\ (Invoked("ask_merge") /\ ~SaidYes(tick.merge_reply))
          => (~Invoked("merge") /\ pc # "merge")
    /\ (Invoked("ask_push") /\ ~SaidYes(tick.push_reply))
          => /\ ~Invoked("add") /\ ~Invoked("commit") /\ ~Invoked("push")
             /\ ~Invoked("token_missing_push")
             /\ pc \notin {"add", "commit", "push"}
    /\ (Invoked("merge") \/ pc = "merge") => SaidYes(tick.merge_reply)
    /\ (Invoked("ask_push") /\ (Invoked("add") \/ pc = "add"))
          => SaidYes(tick.push_reply)

C28_Witness ==
    /\ pc = "sleep"
    /\ Invoked("ask_merge") /\ UserSaid(tick.merge_reply, <<>>)
    /\ Invoked("ask_push") /\ UserSaid(tick.push_reply, <<"y", "e">>)
    /\ repo.dirty /\ repo.head # repo.track

\* the events the step appends to the trace of the tick
NewEvents == SubSeq(trace', Len(trace) + 1, Len(trace'))

Cmds(evs) == [i \in 1..Len(evs) |-> evs[i].cmd]

\* the commands that carry the credential, when the repository is private
WithCredential(cmd) ==
    (IF IsPrivate THEN <<"remote_get_url", "config_url">> ELSE <<>>) \o <<cmd>>

\* What a step of a tick at position p issues and where the tick goes next,
\* as a function of the repository r, the configuration, the credential
\* store, the outcomes evs of the commands it ran and the answer to its
\* prompt, and of nothing else.
TickDecision(p, r, evs, reply) ==
    CASE p = "fetch" ->
            IF IsPrivate /\ CredentialAbsent
            THEN [cmds |-> <<"token_missing">>, next |-> "sleep"]
            ELSE [cmds |-> WithCredential("fetch"),
                  next |-> IF evs[Len(evs)].ok THEN "has_changes" ELSE "sleep"]
      [] p = "has_changes" ->
            LET drift == evs[1].ok /\ evs[2].ok /\ r.head # r.track
            IN [cmds |-> <<"rev_parse_head", "rev_parse_remote">>
                            \o (IF drift THEN <<"log">> ELSE <<>>),
                next |-> IF drift THEN "ask_merge" ELSE "local"]
      [] p = "ask_merge" ->
            [cmds |-> <<"ask_merge">>,
             next |-> IF SaidYes(reply) THEN "merge" ELSE "local"]
      [] p = "merge" -> [cmds |-> <<"merge">>, next |-> "local"]
      [] p = "local" ->
            LET changed == evs[1].ok /\ (r.dirty \/ r.staged \/ r.merging)
            IN [cmds |-> <<"status_porcelain">>
                            \o (IF changed THEN <<"handle_local">> ELSE <<>>)
                            \o (IF changed /\ AutoPush THEN <<"status">> ELSE <<>>),
                next |-> IF ~(changed /\ AutoPush) THEN "sleep"
                         ELSE IF ConfirmPush THEN "ask_push" ELSE "add"]
      [] p = "ask_push" ->
            [cmds |-> <<"ask_push">>,
             next |-> IF SaidYes(reply) THEN "add" ELSE "sleep"]
      [] p = "add" ->
            [cmds |-> <<"add">>, next |-> IF evs[1].ok THEN "commit" ELSE "sleep"]
      [] p = "commit" ->
            [cmds |-> <<"commit">>, next |-> IF evs[1].ok THEN "push" ELSE "sleep"]
      [] p = "push" ->
            IF IsPrivate /\ CredentialAbsent
            THEN [cmds |-> <<"token_missing_push">>, next |-> "sleep"]
            ELSE [cmds |-> WithCredential("push"), next |-> "sleep"]

\* C23: tick decisions have no memory: the commands and prompts every step
\* of a tick issues, and the step the tick takes next, are determined by
\* the repository state, the configuration, the credential store, the
\* outcomes of the commands and the answers of that tick alone; the number
\* of earlier ticks, the time of the last check and what earlier ticks did
\* play no part, so a prompt declined in one tick is asked again in a later
\* tick that finds the same condition.
C23_TickHasNoMemory ==
    [][(pc \in TickPositions /\ Len(trace') > Len(trace))
        => LET reply == IF pc = "ask_merge" THEN tick'.merge_reply
                        ELSE tick'.push_reply
               decision == TickDecision(pc, repo, NewEvents, reply)
           IN /\ Cmds(NewEvents) = decision.cmds
              /\ pc' = decision.next]_vars

C23_Witness ==
    /\ ticks >= 2
    /\ pc = "sleep"
    /\ Invoked("ask_merge") /\ UserSaid(tick.merge_reply, <<"n">>)
    /\ Invoked("ask_push") /\ UserSaid(tick.push_reply, <<"n">>)
    /\ tick.head0 # 1

\* the call raised nothing and returned the failure triple: succeeded false,
\* stdout empty, a diagnostic in stderr
ReturnedFailure(result) ==
    /\ result.raised = "none"
    /\ ~result.ok
    /\ result.stdout = <<>>
    /\ result.stderr # <<>>

\* C24 (as claimed): the command runner never raises, a failure to start or
\* run the subprocess is returned as (false, empty stdout, non-empty
\* diagnostic), with capture_output false both text fields of the result
\* are empty, and the subprocess is given GIT_TERMINAL_PROMPT=0.
C24_RunnerContract ==
    run_call.ran =>
        /\ run_call.result.raised = "none"
        /\ run_call.launch # "started" => ReturnedFailure(run_call.result)
        /\ ~run_call.capture_output
              => (run_call.result.stdout = <<>> /\ run_call.result.stderr = <<>>)
        /\ run_call.result.env = "0"

\* C24 (amended): the command runner raises no Exception: when
\* subprocess.run raises one (git or the directory missing, not executable,
\* undecodable output) the call returns (false, empty stdout, non-empty
\* diagnostic), also with capture_output false; only a KeyboardInterrupt
\* leaves it.  When the subprocess ran, the call returns returncode = 0 with
\* the collected stdout and stderr, and with capture_output false both text
\* fields are empty.  Every invocation is given GIT_TERMINAL_PROMPT=0,
\* whatever the variable was in os.environ.
C24_RunnerReturnsFailures ==
    run_call.ran =>
        /\ run_call.result.raised # "none" <=> run_call.launch = "KeyboardInterrupt"
        /\ run_call.launch \in Exceptions => ReturnedFailure(run_call.result)
        /\ run_call.launch = "started" =>
              /\ run_call.result.ok <=> run_call.returncode = 0
              /\ run_call.capture_output
                    => /\ run_call.result.stdout = run_call.out
                       /\ run_call.result.stderr = run_call.err
              /\ ~run_call.capture_output
                    => /\ run_call.result.stdout = <<>>
                       /\ run_call.result.stderr = <<>>
        /\ run_call.result.env = "0"

C24_Witness ==
    /\ run_call.ran
    /\ ~run_call.capture_output
    /\ run_call.launch = "FileNotFoundError"
    /\ run_call.environ = "1"
    /\ run_call.result.stderr # <<>>

\* the repository a URL designates: the URL without credential and without
\* the .git suffix
Designated(url) ==
    LET plain == IF url # <<>> /\ url[Len(url)] = ".git"
                 THEN SubSeq(url, 1, Len(url) - 1) ELSE url
    IN IF Len(plain) >= 3 /\ plain[3] = "@"
       THEN <<plain[1]>> \o SubSeq(plain, 4, Len(plain))
       ELSE plain

====
